---- MODULE Spec2Model ----
(***************************************************************************)
(* The Sudoku core of src/pages/Index.tsx (utils/sudokuSolver): isSafe,    *)
(* solveSudoku, solveSudokuAnimated, generatePuzzle, fillBox and           *)
(* isValidSudoku, over the 4x4 grid size of the size selector, and the     *)
(* page component Index with its handlers and timers.                      *)
(***************************************************************************)
EXTENDS Integers, Sequences, FiniteSets, TLC

\* Grid size offered by the size selector (SelectItem value="4").
N == 4
\* Default step delay of solveSudokuAnimated, in milliseconds.
DefaultDelay == 50

\* Number of cells filled in on the empty grid to obtain a solver input.
MaxGivens == 1
\* Number of cell edits applied to the scenario board to obtain a solver input.
MaxEdits == 2
\* Bound on the sum of the shuffle draws of a generator run.
MaxDrawSum == 1
\* Number of values of Math.random() told apart: k / RandomSteps.
RandomSteps == 4
\* Number of user events (clicks, selections, cell edits) in a page run.
MaxPageEvents == 3
\* Number of cells, the first ones in row-major order, the user types into.
MaxEditCells == 1
\* Number of outcomes of the removal loop told apart in a page run.
MaxPickSets == 1
\* Largest first draw of the second box's shuffle in a page run; its other
\* shuffle draws are 0.
MaxPageDraw == 1

Idx == 0 .. (N - 1)
Cells == Idx \X Idx
Digits == 1 .. N

\* Math.sqrt(size) for the perfect squares the boards are restricted to.
Sqrt(n) == CHOOSE k \in 0 .. n : k * k = n

\* board.length
Size(board) == Cardinality(DOMAIN board)

\* Array(size).fill(null).map(() => Array(size).fill(0))
EmptyGrid(size) == [r \in 0 .. (size - 1) |-> [c \in 0 .. (size - 1) |-> 0]]

\* board[row][col] = value, on the board object itself
SetCell(board, row, col, value) == [board EXCEPT ![row][col] = value]

(***************************************************************************)
(* isSafe: three scans, each returning false on the first hit.             *)
(***************************************************************************)
RowScan(board, row, num) ==
    \E x \in 0 .. (Size(board) - 1) : board[row][x] = num

\* Faulty variant: the column scan stops one row short.
ColScanShort(board, col, num) ==
    \E x \in 0 .. (Size(board) - 2) : board[x][col] = num

\* Faulty variant: the column scan is left out.
ColScanNone(board, col, num) == FALSE

ColScan(board, col, num) ==
    \E x \in 0 .. (Size(board) - 1) : board[x][col] = num

\* Faulty variant: the box corner's column is computed from the row.
BoxScanRowCorner(board, row, col, num) ==
    LET boxSize == Sqrt(Size(board))
        startRow == row - (row % boxSize)
        startCol == col - (row % boxSize)
    IN  \E i \in 0 .. (boxSize - 1) : \E j \in 0 .. (boxSize - 1) :
            board[i + startRow][((j + startCol) + Size(board)) % Size(board)] = num

BoxScan(board, row, col, num) ==
    LET boxSize == Sqrt(Size(board))
        startRow == row - (row % boxSize)
        startCol == col - (col % boxSize)
    IN  \E i \in 0 .. (boxSize - 1) : \E j \in 0 .. (boxSize - 1) :
            board[i + startRow][j + startCol] = num

isSafe(board, row, col, num) ==
    IF RowScan(board, row, num) THEN FALSE
    ELSE IF ColScan(board, col, num) THEN FALSE
    ELSE IF BoxScan(board, row, col, num) THEN FALSE
    ELSE TRUE

(***************************************************************************)
(* The row-major scan for the first empty cell shared by both solvers:     *)
(* for (row...) for (col...) if (board[row][col] === 0).  Position k is    *)
(* the cell (k div size, k mod size); size * size means no cell is empty.  *)
(***************************************************************************)
\* Faulty variant: the scan yields the last empty cell instead of the first.
scanEmptyLast(board, k) ==
    LET size == Size(board)
        empty == {j \in k .. (size * size - 1) : board[j \div size][j % size] = 0}
    IN  IF empty = {} THEN size * size
        ELSE CHOOSE j \in empty : \A i \in empty : i <= j

RECURSIVE scanEmpty(_, _)
scanEmpty(board, k) ==
    LET size == Size(board)
    IN  IF k >= size * size THEN size * size
        ELSE IF board[k \div size][k % size] = 0 THEN k
        ELSE scanEmpty(board, k + 1)

(***************************************************************************)
(* isValidSudoku: every filled cell is cleared, checked with isSafe        *)
(* against its own value and restored.  The scan returns its verdict and   *)
(* the board as the call leaves it.                                        *)
(***************************************************************************)
RECURSIVE validScanNoClear(_, _), validScanNoRestore(_, _)
\* Faulty variant: the cell is checked without being cleared first.
validScanNoClear(board, k) ==
    LET size == Size(board)
        row == k \div size
        col == k % size
    IN  IF k >= size * size THEN [ok |-> TRUE, board |-> board]
        ELSE IF board[row][col] # 0
        THEN IF ~isSafe(board, row, col, board[row][col])
             THEN [ok |-> FALSE, board |-> board]
             ELSE validScanNoClear(board, k + 1)
        ELSE validScanNoClear(board, k + 1)

\* Faulty variant: the early return forgets to restore the cleared cell.
validScanNoRestore(board, k) ==
    LET size == Size(board)
        row == k \div size
        col == k % size
    IN  IF k >= size * size THEN [ok |-> TRUE, board |-> board]
        ELSE IF board[row][col] # 0
        THEN LET num == board[row][col]
                 cleared == SetCell(board, row, col, 0)
             IN  IF ~isSafe(cleared, row, col, num)
                 THEN [ok |-> FALSE, board |-> cleared]
                 ELSE validScanNoRestore(SetCell(cleared, row, col, num), k + 1)
        ELSE validScanNoRestore(board, k + 1)

RECURSIVE validScan(_, _)
validScan(board, k) ==
    LET size == Size(board)
        row == k \div size
        col == k % size
    IN  IF k >= size * size THEN [ok |-> TRUE, board |-> board]
        ELSE IF board[row][col] # 0
        THEN LET num == board[row][col]
                 cleared == SetCell(board, row, col, 0)
             IN  IF ~isSafe(cleared, row, col, num)
                 THEN [ok |-> FALSE, board |-> SetCell(cleared, row, col, num)]
                 ELSE validScan(SetCell(cleared, row, col, num), k + 1)
        ELSE validScan(board, k + 1)

isValidSudoku(board) == validScan(board, 0)

(***************************************************************************)
(* solveSudoku: the recursive closure solve() and its candidate loop.      *)
(* A search state is [board, steps]; a frame returns [ok, board, steps].   *)
(***************************************************************************)
RECURSIVE solveFrame(_, _), solveCandidates(_, _, _, _, _),
          solveCandidatesShort(_, _, _, _, _)

\* Faulty variant: a step is counted per searched cell, not per activation.
solveFrameLateCount(board, steps) ==
    LET size == Size(board)
        k == scanEmpty(board, 0)
    IN  IF k = size * size
        THEN [ok |-> TRUE, board |-> board, steps |-> steps]
        ELSE solveCandidates(board, k \div size, k % size, 1, steps + 1)

solveFrame(board, steps) ==
    LET size == Size(board)
        k == scanEmpty(board, 0)
    IN  IF k = size * size
        THEN [ok |-> TRUE, board |-> board, steps |-> steps + 1]
        ELSE solveCandidates(board, k \div size, k % size, 1, steps + 1)

\* Faulty variant: the candidate loop runs while num < size.
solveCandidatesShort(board, row, col, num, steps) ==
    IF num >= Size(board)
    THEN [ok |-> FALSE, board |-> board, steps |-> steps]
    ELSE IF isSafe(board, row, col, num)
    THEN LET sub == solveFrame(SetCell(board, row, col, num), steps)
         IN  IF sub.ok THEN sub
             ELSE solveCandidatesShort(SetCell(sub.board, row, col, 0),
                                       row, col, num + 1, sub.steps)
    ELSE solveCandidatesShort(board, row, col, num + 1, steps)

RECURSIVE solveCandidatesDescending(_, _, _, _, _)
\* Faulty variant: the candidates are tried from size down to 1.
solveCandidatesDescending(board, row, col, num, steps) ==
    LET value == Size(board) + 1 - num
    IN  IF num > Size(board)
        THEN [ok |-> FALSE, board |-> board, steps |-> steps]
        ELSE IF isSafe(board, row, col, value)
        THEN LET sub == solveFrame(SetCell(board, row, col, value), steps)
             IN  IF sub.ok THEN sub
                 ELSE solveCandidatesDescending(SetCell(sub.board, row, col, 0),
                                                row, col, num + 1, sub.steps)
        ELSE solveCandidatesDescending(board, row, col, num + 1, steps)

RECURSIVE solveCandidatesNoUndo(_, _, _, _, _)
\* Faulty variant: a failed placement is not cleared back to 0.
solveCandidatesNoUndo(board, row, col, num, steps) ==
    IF num > Size(board)
    THEN [ok |-> FALSE, board |-> board, steps |-> steps]
    ELSE IF isSafe(board, row, col, num)
    THEN LET sub == solveFrame(SetCell(board, row, col, num), steps)
         IN  IF sub.ok THEN sub
             ELSE solveCandidatesNoUndo(sub.board, row, col, num + 1, sub.steps)
    ELSE solveCandidatesNoUndo(board, row, col, num + 1, steps)

solveCandidates(board, row, col, num, steps) ==
    IF num > Size(board)
    THEN [ok |-> FALSE, board |-> board, steps |-> steps]
    ELSE IF isSafe(board, row, col, num)
    THEN LET sub == solveFrame(SetCell(board, row, col, num), steps)
         IN  IF sub.ok THEN sub
             ELSE solveCandidates(SetCell(sub.board, row, col, 0),
                                  row, col, num + 1, sub.steps)
    ELSE solveCandidates(board, row, col, num + 1, steps)

\* Faulty variant: the solver rejects a board that has a conflict.
solveSudokuGuarded(board) ==
    IF ~isValidSudoku(board).ok
    THEN [solved |-> FALSE, grid |-> board, steps |-> 0]
    ELSE LET r == solveFrame(board, 0)
         IN  [solved |-> r.ok, grid |-> r.board, steps |-> r.steps]

solveSudoku(board) ==
    LET r == solveFrame(board, 0)
    IN  [solved |-> r.ok, grid |-> r.board, steps |-> r.steps]

(***************************************************************************)
(* fillBox and the seeding loop of generatePuzzle.  draws[i] is the value  *)
(* of Math.floor(Math.random() * (i + 1)) in the shuffle's iteration i.    *)
(***************************************************************************)
\* [numbers[i], numbers[j]] = [numbers[j], numbers[i]]
Swap(numbers, i, j) == [numbers EXCEPT ![i] = numbers[j], ![j] = numbers[i]]

RECURSIVE shuffle(_, _, _)
\* for (let i = numbers.length - 1; i > 0; i--)
shuffle(numbers, i, draws) ==
    IF i <= 0 THEN numbers
    ELSE shuffle(Swap(numbers, i, draws[i]), i - 1, draws)

ShuffleDraws(size) ==
    {d \in [1 .. (size - 1) -> 0 .. (size - 1)] : \A i \in 1 .. (size - 1) : d[i] <= i}

\* grid[row + i][col + j] = numbers[numIndex++] over the box at (row, col)
fillBox(grid, row, col, size, draws) ==
    LET boxSize == Sqrt(size)
        numbers == shuffle([i \in 0 .. (size - 1) |-> i + 1], size - 1, draws)
    IN  [r \in DOMAIN grid |-> [c \in DOMAIN grid[r] |->
            IF (r - row) \in 0 .. (boxSize - 1) /\ (c - col) \in 0 .. (boxSize - 1)
            THEN numbers[(r - row) * boxSize + (c - col)]
            ELSE grid[r][c]]]

RECURSIVE fillDiagonal(_, _, _, _)
\* for (let i = 0; i < size; i += boxSize) fillBox(grid, i, i, size)
fillDiagonal(grid, i, size, draws) ==
    IF i >= size THEN grid
    ELSE fillDiagonal(fillBox(grid, i, i, size, draws[i \div Sqrt(size)]),
                      i + Sqrt(size), size, draws)

\* Faulty variant: the ratio is drawn from [0.2, 0.4) instead of [0.3, 0.5).
cellsToKeepFifth(size, k) ==
    (size * size * (2 * RandomSteps + 2 * k)) \div (10 * RandomSteps)

\* Math.floor(size * size * (0.3 + Math.random() * 0.2)) for the random
\* value k / RandomSteps.
cellsToKeep(size, k) ==
    (size * size * (3 * RandomSteps + 2 * k)) \div (10 * RandomSteps)

\* The non-zero cells of a grid, the only ones the removal loop clears.
NonZero(grid) ==
    {cell \in (DOMAIN grid) \X (DOMAIN grid) : grid[cell[1]][cell[2]] # 0}

\* grid[row][col] = 0 for every cell the removal loop picked.
Cleared(grid, picked) ==
    [r \in DOMAIN grid |-> [c \in DOMAIN grid[r] |->
        IF <<r, c>> \in picked THEN 0 ELSE grid[r][c]]]

\* handleCellChange's new grid: grid.map((r, i) => r.map((c, j) => ...))
CellChange(grid, row, col, value) ==
    [i \in DOMAIN grid |->
        [j \in DOMAIN grid[i] |-> IF i = row /\ j = col THEN value ELSE grid[i][j]]]

\* The values handleInputChange passes on: 0 for '' and 1..size.
CellValues(size) == 0 .. size

\* The 4x4 scenario board of the test scenarios, one cell short of solved.
ScenarioBoard ==
    [r \in Idx |-> [c \in Idx |->
        (<< <<1, 2, 3, 4>>, <<3, 4, 1, 2>>, <<2, 1, 4, 3>>, <<4, 3, 2, 0>> >>)[r + 1][c + 1]]]

RECURSIVE Edited(_, _)
\* The boards reached from base by at most k cell edits.
Edited(base, k) ==
    IF k = 0 THEN {base}
    ELSE LET prev == Edited(base, k - 1)
         IN  prev \cup {CellChange(g, cell[1], cell[2], v) :
                          g \in prev, cell \in Cells, v \in CellValues(N)}

\* The 4x4 board of the rejected-input scenario: row 0 is [1, 1, 0, 0].
ConflictBoard == CellChange(CellChange(EmptyGrid(N), 0, 0, 1), 0, 1, 1)

\* The grids generatePuzzle hands to solveSudoku, for every shuffle outcome.
SeededGrids ==
    {fillDiagonal(EmptyGrid(N), 0, N, draws) :
        draws \in [0 .. (Sqrt(N) - 1) -> ShuffleDraws(N)]}

SolverInputs ==
    Edited(EmptyGrid(N), MaxGivens) \cup Edited(ScenarioBoard, MaxEdits)
        \cup {ConflictBoard} \cup SeededGrids
Delays == {0, DefaultDelay}

(***************************************************************************)
(* State.  The solver variables hold one starting board, the result of the *)
(* synchronous solver on a copy of it, and the suspended state of the      *)
(* animated solver on another copy: its board, the activations of solve()  *)
(* that are waiting on a placement, the step counter, and the pending      *)
(* timer.  The checker variables hold a board and one call of isSafe or    *)
(* isValidSudoku on it.  The generator variables hold one run of           *)
(* generatePuzzle: the shuffle draws, the result of its solveSudoku call,   *)
(* the ratio draw, the removal count, the loop counter and the grid; and,  *)
(* for the page, the runs its random source can give a call made there.    *)
(***************************************************************************)
VARIABLES input, result, aPc, aBoard, aStack, aSteps, aSolved, aDelay,
          aTimer, shown, updates, aPlacements, aUndos,
          cInput, cBoard, ret,
          gDraws, gPc, gGrid, gSolve, gK, gRemove, gI, gRuns,
          gridSize, grid, originalGrid, isAnimating, solveStatus,
          genTimers, statusTimers, pageHung, events

solverVars == <<input, result, aPc, aBoard, aStack, aSteps, aSolved, aDelay,
                aTimer, shown, updates, aPlacements, aUndos>>
checkerVars == <<cInput, cBoard, ret>>
genVars == <<gDraws, gPc, gGrid, gSolve, gK, gRemove, gI, gRuns>>
pageVars == <<gridSize, grid, originalGrid, isAnimating, solveStatus,
              genTimers, statusTimers, pageHung, events>>
vars == <<solverVars, checkerVars, genVars, pageVars>>

NoResult == [solved |-> FALSE, grid |-> <<>>, steps |-> 0]
NoCall == [op |-> "none"]

(***************************************************************************)
(* solveSudokuAnimated, run from one suspension point to the next.  A      *)
(* stack entry is an activation of solve() suspended after placing num at  *)
(* (row, col).  Each run returns the next suspended state.                 *)
(***************************************************************************)
Suspended(pc, board, stack, steps, solved, upd) ==
    [pc |-> pc, board |-> board, stack |-> stack, steps |-> steps,
     solved |-> solved, upd |-> upd]

\* Faulty variant: the caller does not clear its cell when backtracking.
returnFalseKeepsCell(board, stack, steps) ==
    IF stack = <<>>
    THEN Suspended("done", board, stack, steps, FALSE, FALSE)
    ELSE Suspended("undone", board, stack, steps, FALSE, TRUE)

\* An activation returns false: its caller clears its cell, calls onUpdate
\* and waits delay / 2; with no caller the promise resolves unsolved.
returnFalse(board, stack, steps) ==
    IF stack = <<>>
    THEN Suspended("done", board, stack, steps, FALSE, FALSE)
    ELSE LET top == stack[Len(stack)]
         IN  Suspended("undone", SetCell(board, top.row, top.col, 0),
                       stack, steps, FALSE, TRUE)

RECURSIVE animCandidates(_, _, _, _, _, _)
\* for (num...; num <= size; num++) from num on, up to the first placement.
animCandidates(board, stack, row, col, num, steps) ==
    IF num > Size(board)
    THEN returnFalse(board, stack, steps)
    ELSE IF isSafe(board, row, col, num)
    THEN Suspended("placed", SetCell(board, row, col, num),
                   Append(stack, [row |-> row, col |-> col, num |-> num]),
                   steps, FALSE, TRUE)
    ELSE animCandidates(board, stack, row, col, num + 1, steps)

\* Faulty variant: an activation that finds an empty cell is not counted.
animFrameUncounted(board, stack, steps) ==
    LET size == Size(board)
        k == scanEmpty(board, 0)
    IN  IF k = size * size
        THEN Suspended("done", board, <<>>, steps + 1, TRUE, FALSE)
        ELSE animCandidates(board, stack, k \div size, k % size, 1, steps)

\* A fresh activation of solve(): steps++, then the scan for an empty cell.
\* With none left it returns true and every waiting caller returns true.
animFrame(board, stack, steps) ==
    LET size == Size(board)
        k == scanEmpty(board, 0)
    IN  IF k = size * size
        THEN Suspended("done", board, <<>>, steps + 1, TRUE, FALSE)
        ELSE animCandidates(board, stack, k \div size, k % size, 1, steps + 1)

\* The activation on top of the stack goes on after its backtrack wait.
animResume(board, stack, steps) ==
    LET top == stack[Len(stack)]
    IN  animCandidates(board, SubSeq(stack, 1, Len(stack) - 1),
                       top.row, top.col, top.num + 1, steps)

\* The timeout awaited after a placement (delay) or a backtrack (delay / 2).
TimerOf(pc, delay) ==
    IF pc = "placed" THEN delay
    ELSE IF pc = "undone" THEN delay \div 2
    ELSE 0

\* Faulty variant: onUpdate is not called after a backtrack.
AdoptSilentUndo(s) ==
    /\ aPc' = s.pc
    /\ aBoard' = s.board
    /\ aStack' = s.stack
    /\ aSteps' = s.steps
    /\ aSolved' = s.solved
    /\ aTimer' = TimerOf(s.pc, aDelay')
    /\ shown' = IF s.pc = "placed" THEN s.board ELSE shown
    /\ updates' = IF s.pc = "placed" THEN updates + 1 ELSE updates
    /\ aPlacements' = IF s.pc = "placed" THEN aPlacements + 1 ELSE aPlacements
    /\ aUndos' = IF s.pc = "undone" THEN aUndos + 1 ELSE aUndos

Adopt(s) ==
    /\ aPc' = s.pc
    /\ aBoard' = s.board
    /\ aStack' = s.stack
    /\ aSteps' = s.steps
    /\ aSolved' = s.solved
    /\ aTimer' = TimerOf(s.pc, aDelay')
    /\ shown' = IF s.upd THEN s.board ELSE shown
    /\ updates' = IF s.upd THEN updates + 1 ELSE updates
    /\ aPlacements' = IF s.pc = "placed" THEN aPlacements + 1 ELSE aPlacements
    /\ aUndos' = IF s.pc = "undone" THEN aUndos + 1 ELSE aUndos

(***************************************************************************)
(* Solver actions.                                                         *)
(***************************************************************************)
\* solveSudoku(copy of input): synchronous, runs to completion.  The
\* comparison run is made once the observed run on the other copy resolved.
SolveSudoku ==
    /\ aPc = "done"
    /\ result = NoResult
    /\ result' = solveSudoku(input)
    /\ UNCHANGED <<input, aPc, aBoard, aStack, aSteps, aSolved, aDelay, aTimer,
                   shown, updates, aPlacements, aUndos>>
    /\ UNCHANGED <<checkerVars, genVars, pageVars>>

\* solveSudokuAnimated(copy of input, onUpdate, delay) up to its first await.
SolveSudokuAnimated ==
    /\ aPc = "idle"
    /\ \E d \in Delays :
        /\ aDelay' = d
        /\ \E s \in {animFrame(input, <<>>, 0)} : Adopt(s)
    /\ UNCHANGED <<input, result>>
    /\ UNCHANGED <<checkerVars, genVars, pageVars>>

\* The timer awaited after a placement fires: if (await solve()) ...
PlacementTimer ==
    /\ aPc = "placed"
    /\ aDelay' = aDelay
    /\ \E s \in {animFrame(aBoard, aStack, aSteps)} : Adopt(s)
    /\ UNCHANGED <<input, result>>
    /\ UNCHANGED <<checkerVars, genVars, pageVars>>

\* The timer awaited after a backtrack fires: the candidate loop goes on.
BacktrackTimer ==
    /\ aPc = "undone"
    /\ aDelay' = aDelay
    /\ \E s \in {animResume(aBoard, aStack, aSteps)} : Adopt(s)
    /\ UNCHANGED <<input, result>>
    /\ UNCHANGED <<checkerVars, genVars, pageVars>>

SolverAt(board) ==
    /\ input = board
    /\ result = NoResult
    /\ aPc = "idle"
    /\ aBoard = board
    /\ aStack = <<>>
    /\ aSteps = 0
    /\ aSolved = FALSE
    /\ aDelay = DefaultDelay
    /\ aTimer = 0
    /\ shown = board
    /\ updates = 0
    /\ aPlacements = 0
    /\ aUndos = 0

(***************************************************************************)
(* Checker actions: one call of isValidSudoku or of isSafe on the board.   *)
(***************************************************************************)
CheckerAt(board) ==
    /\ cInput = board
    /\ cBoard = board
    /\ ret = NoCall

\* isValidSudoku(board): the verdict, and the board as the call leaves it.
CallIsValidSudoku ==
    /\ ret = NoCall
    /\ \E r \in {isValidSudoku(cBoard)} :
           /\ ret' = [op |-> "isValidSudoku", value |-> r.ok]
           /\ cBoard' = r.board
    /\ UNCHANGED cInput
    /\ UNCHANGED <<solverVars, genVars, pageVars>>

\* isSafe(board, row, col, num) on an empty cell, as the solvers call it.
CallIsSafe ==
    /\ ret = NoCall
    /\ \E row \in DOMAIN cBoard : \E col \in DOMAIN cBoard : \E num \in 1 .. Size(cBoard) :
        /\ cBoard[row][col] = 0
        /\ ret' = [op |-> "isSafe", row |-> row, col |-> col, num |-> num,
                   value |-> isSafe(cBoard, row, col, num)]
    /\ UNCHANGED <<cInput, cBoard>>
    /\ UNCHANGED <<solverVars, genVars, pageVars>>

(***************************************************************************)
(* generatePuzzle(N).  The removal loop clears one non-zero cell per       *)
(* iteration, each picked at random: it ends with cellsToRemove cells      *)
(* cleared, any set of that many non-zero cells, or, when fewer cells are  *)
(* non-zero, stays in its do-while once the grid is all zero.              *)
(***************************************************************************)
GenAt(draws) ==
    /\ gRuns = {}
    /\ gDraws = draws
    /\ gPc = "idle"
    /\ gGrid = EmptyGrid(N)
    /\ gSolve = NoResult
    /\ gK = 0
    /\ gRemove = 0
    /\ gI = 0

GeneratePuzzle ==
    /\ gPc = "idle"
    /\ \E solved \in {solveSudoku(fillDiagonal(EmptyGrid(N), 0, N, gDraws))} :
       \E nonZero \in {NonZero(solved.grid)} :
       \E k \in 0 .. (RandomSteps - 1) :
       \E cellsToRemove \in {N * N - cellsToKeep(N, k)} :
            /\ gSolve' = solved
            /\ gK' = k
            /\ gRemove' = cellsToRemove
            /\ IF cellsToRemove <= Cardinality(nonZero)
               THEN \E picked \in SUBSET nonZero :
                        /\ Cardinality(picked) = cellsToRemove
                        /\ gGrid' = Cleared(solved.grid, picked)
                        /\ gI' = cellsToRemove
                        /\ gPc' = "returned"
               ELSE /\ gGrid' = Cleared(solved.grid, nonZero)
                    /\ gI' = Cardinality(nonZero)
                    /\ gPc' = "spinning"
    /\ UNCHANGED <<gDraws, gRuns>>
    /\ UNCHANGED <<solverVars, checkerVars, pageVars>>

\* The shuffle outcomes with at most MaxDrawSum as the sum of their draws.
SeedDraws ==
    {draws \in [0 .. (Sqrt(N) - 1) -> ShuffleDraws(N)] :
        LET S(b) == draws[b][1] + draws[b][2] + draws[b][3]
        IN  S(0) + S(1) <= MaxDrawSum}

(***************************************************************************)
(* The page component Index: its state as the size selector leaves it.     *)
(***************************************************************************)
\* The status line while nothing is reported.
StatusNone == ""

\* The page at rest with the user's entries board on the grid of a size.
PageWith(size, board) ==
    /\ gridSize = size
    /\ grid = board
    /\ originalGrid = EmptyGrid(size)
    /\ isAnimating = FALSE
    /\ solveStatus = StatusNone
    /\ genTimers = 0
    /\ statusTimers = 0
    /\ pageHung = FALSE
    /\ events = 0

\* handleGridSizeChange's writes; also the useState initial values, which
\* are those of size 9.
PageAt(size) == PageWith(size, EmptyGrid(size))

(***************************************************************************)
(* Specifications: the two solvers on one input; the checker calls on one  *)
(* board; one run of the generator.                                        *)
(***************************************************************************)
Init ==
    /\ \E board \in SolverInputs : SolverAt(board)
    /\ CheckerAt(EmptyGrid(N))
    /\ GenAt([b \in 0 .. (Sqrt(N) - 1) |-> [i \in 1 .. (N - 1) |-> 0]])
    /\ PageAt(N)

Next ==
    \/ SolveSudoku
    \/ SolveSudokuAnimated
    \/ PlacementTimer
    \/ BacktrackTimer

Spec == Init /\ [][Next]_vars

InitChecker ==
    /\ SolverAt(EmptyGrid(N))
    /\ \E board \in SolverInputs : CheckerAt(board)
    /\ GenAt([b \in 0 .. (Sqrt(N) - 1) |-> [i \in 1 .. (N - 1) |-> 0]])
    /\ PageAt(N)

NextChecker ==
    \/ CallIsValidSudoku
    \/ CallIsSafe

SpecChecker == InitChecker /\ [][NextChecker]_vars

InitGen ==
    /\ SolverAt(EmptyGrid(N))
    /\ CheckerAt(EmptyGrid(N))
    /\ \E draws \in SeedDraws : GenAt(draws)
    /\ PageAt(N)

NextGen == GeneratePuzzle

SpecGen == InitGen /\ [][NextGen]_vars

(***************************************************************************)
(* Vocabulary of the properties: rows, columns and boxes as sets of cells, *)
(* stated without reference to the scans above.                            *)
(***************************************************************************)
BoxSide == Sqrt(N)
RowUnit(r) == {cell \in Cells : cell[1] = r}
ColUnit(c) == {cell \in Cells : cell[2] = c}
BoxUnit(br, bc) ==
    {cell \in Cells : cell[1] \div BoxSide = br /\ cell[2] \div BoxSide = bc}
Units ==
    {RowUnit(r) : r \in Idx} \cup {ColUnit(c) : c \in Idx}
        \cup {BoxUnit(br, bc) : br \in 0 .. (BoxSide - 1), bc \in 0 .. (BoxSide - 1)}

At(b, cell) == b[cell[1]][cell[2]]
Filled(b) == {cell \in Cells : At(b, cell) # 0}
IsBoard(b) == DOMAIN b = Idx /\ \A r \in Idx : DOMAIN b[r] = Idx

\* Every row, column and box holds each of 1..N exactly once.
IsLatin(b) == \A u \in Units : {At(b, cell) : cell \in u} = Digits

\* No non-zero value occurs in two cells of one row, column or box.
ConflictFree(b) ==
    \A u \in Units : \A p \in u : \A q \in u :
        (p # q /\ At(b, p) # 0) => At(b, p) # At(b, q)

\* s keeps every filled cell of b.
Extends(b, s) == \A cell \in Cells : At(b, cell) # 0 => At(s, cell) = At(b, cell)

Perms == {p \in [Idx -> Digits] : \A i \in Idx : \A j \in Idx : i # j => p[i] # p[j]}
Bands ==
    {h \in [0 .. (BoxSide - 1) -> Perms] :
        \A bc \in 0 .. (BoxSide - 1) :
            Cardinality({h[i][j] : i \in 0 .. (BoxSide - 1),
                                   j \in (bc * BoxSide) .. (bc * BoxSide + BoxSide - 1)}) = N}
\* All completed grids, built from rows instead of by search.
AllSolved ==
    {b \in {[r \in Idx |-> t[r \div BoxSide][r % BoxSide]] :
                t \in [0 .. (BoxSide - 1) -> Bands]} : IsLatin(b)}

HasCompletion(b) == \E s \in AllSolved : Extends(b, s)

Returned == result # NoResult
BothReturned == aPc = "done" /\ Returned

(***************************************************************************)
(* C1: solveSudokuAnimated and solveSudoku, run on equal copies of one     *)
(* starting board, return the same solved flag and the same final board,   *)
(* whatever the delay.                                                     *)
(***************************************************************************)
C1_SolversAgree ==
    BothReturned => (result.solved = aSolved /\ result.grid = aBoard)

\* Both runs have returned after a search that backtracked and solved.
C1_Witness ==
    /\ BothReturned
    /\ aSolved
    /\ updates > Cardinality(Cells \ Filled(input))
    /\ aDelay = 0

(***************************************************************************)
(* C2: on a conflict-free input, a solved=true result has no empty cell,   *)
(* every row, column and box of it is a permutation of 1..N, and every     *)
(* filled cell of the input keeps its value.                               *)
(***************************************************************************)
C2_SolvedIsCompletion ==
    (Returned /\ isValidSudoku(input).ok /\ result.solved) =>
        /\ IsBoard(result.grid)
        /\ Filled(result.grid) = Cells
        /\ IsLatin(result.grid)
        /\ Extends(input, result.grid)

\* A conflict-free input with several empty cells was solved.
C2_Witness ==
    /\ Returned
    /\ isValidSudoku(input).ok
    /\ result.solved
    /\ Cardinality(Filled(input)) = 1
    /\ result.steps > N * N

(***************************************************************************)
(* C3: on a conflict-free input that has a completion, solve returns       *)
(* solved=true; solved=false is returned only when no completion exists.   *)
(***************************************************************************)
C3_UnsolvedMeansNoCompletion ==
    (Returned /\ isValidSudoku(input).ok /\ ~result.solved) => ~HasCompletion(input)

\* A conflict-free input without completion was searched and given up.
C3_Witness ==
    /\ Returned
    /\ isValidSudoku(input).ok
    /\ ~result.solved
    /\ ~HasCompletion(input)
    /\ result.steps > 1

(***************************************************************************)
(* C4: solve on a full conflict-free board returns solved=true with step   *)
(* count 1 and the board unchanged; in particular solve applied to its own *)
(* successful output changes nothing.                                      *)
(***************************************************************************)
C4_FullBoardIdempotent ==
    /\ (Returned /\ Filled(input) = Cells /\ isValidSudoku(input).ok) =>
            result = [solved |-> TRUE, grid |-> input, steps |-> 1]
    /\ (Returned /\ isValidSudoku(input).ok /\ result.solved) =>
            solveSudoku(result.grid) =
                [solved |-> TRUE, grid |-> result.grid, steps |-> 1]

\* solve has returned on an input that was already full and conflict-free.
C4_Witness ==
    /\ Returned
    /\ Filled(input) = Cells
    /\ isValidSudoku(input).ok
    /\ result.steps = 1

(***************************************************************************)
(* C5 as stated: on an input with a conflict between two filled cells,     *)
(* full boards included, solve reports solved=false.                       *)
(***************************************************************************)
C5_ConflictNeverSolved ==
    (Returned /\ ~isValidSudoku(input).ok) => ~result.solved

(***************************************************************************)
(* C5 as amended: on an input with a conflict between two filled cells,    *)
(* solve keeps every filled cell, so the returned board still has the      *)
(* conflict whatever the solved flag; a full such board returns            *)
(* solved=true with step count 1.                                          *)
(***************************************************************************)
C5_ConflictKept ==
    (Returned /\ ~isValidSudoku(input).ok) =>
        /\ Extends(input, result.grid)
        /\ ~isValidSudoku(result.grid).ok
        /\ Filled(input) = Cells =>
                result = [solved |-> TRUE, grid |-> input, steps |-> 1]

\* A conflicting input with empty cells came back reported as solved.
C5_Witness ==
    /\ Returned
    /\ ~isValidSudoku(input).ok
    /\ result.solved
    /\ Filled(input) # Cells

(***************************************************************************)
(* C6: isValidSudoku returns false exactly when some non-zero value        *)
(* occurs in two different cells of one row, column or box; so true on the *)
(* empty board and false on the board whose row 0 is [1, 1, 0, 0].         *)
(***************************************************************************)
C6_ValidIffConflictFree ==
    ret.op = "isValidSudoku" => (ret.value = ConflictFree(cInput))

\* isValidSudoku has rejected the board whose row 0 is [1, 1, 0, 0].
C6_Witness ==
    /\ ret.op = "isValidSudoku"
    /\ cInput = ConflictBoard
    /\ ~ret.value

(***************************************************************************)
(* C7: isValidSudoku leaves the board as it found it, on the true and on   *)
(* the false return path.                                                  *)
(***************************************************************************)
C7_ValidRestoresBoard ==
    ret.op = "isValidSudoku" => cBoard = cInput

\* isValidSudoku has returned false on a board with filled cells.
C7_Witness ==
    /\ ret.op = "isValidSudoku"
    /\ ~ret.value
    /\ Cardinality(Filled(cInput)) >= N * N - 1
    /\ cBoard = cInput

(***************************************************************************)
(* C8: on an empty cell, isSafe returns true exactly when the value occurs *)
(* nowhere in the cell's row, nowhere in its column and nowhere in the box *)
(* whose top-left corner is (row - row mod sqrt(N), col - col mod sqrt(N)),*)
(* and the call changes no cell.                                           *)
(***************************************************************************)
C8_SafeIffAbsent ==
    ret.op = "isSafe" =>
        /\ ret.value =
             (\A cell \in RowUnit(ret.row) \cup ColUnit(ret.col)
                            \cup BoxUnit(ret.row \div BoxSide, ret.col \div BoxSide) :
                 At(cInput, cell) # ret.num)
        /\ cBoard = cInput

\* isSafe has refused a value that occurs only in the box of the cell.
C8_Witness ==
    /\ ret.op = "isSafe"
    /\ ~ret.value
    /\ \A cell \in RowUnit(ret.row) \cup ColUnit(ret.col) : At(cInput, cell) # ret.num

(***************************************************************************)
(* C9: for every filling of the diagonal boxes by shuffles of 1..N, the    *)
(* solveSudoku call of generatePuzzle returns solved=true and a board      *)
(* whose rows, columns and boxes are permutations of 1..N.                 *)
(***************************************************************************)
C9_SeedAlwaysSolved ==
    gPc # "idle" => (gSolve.solved /\ IsLatin(gSolve.grid))

(***************************************************************************)
(* C10: every board generatePuzzle returns is conflict-free:               *)
(* isValidSudoku is true on it, whatever the seeding, the keep ratio and   *)
(* the removals were.                                                      *)
(***************************************************************************)
C10_GeneratedIsValid ==
    gPc = "returned" => (isValidSudoku(gGrid).ok /\ ConflictFree(gGrid))

\* generatePuzzle has returned a puzzle after removing cells.
C10_Witness ==
    /\ gPc = "returned"
    /\ gSolve.solved
    /\ gRemove >= 9
    /\ Cardinality(Filled(gGrid)) = N * N - gRemove

(***************************************************************************)
(* C11: the board generatePuzzle returns has exactly                       *)
(* floor(N*N*r) non-zero cells for the ratio r it drew from [0.3, 0.5),    *)
(* and that count lies in [round(N*N*0.3), round(N*N*0.5)], which for      *)
(* N = 9 is [24, 41].                                                      *)
(***************************************************************************)
\* The sizes the page offers.
GridSizes == {4, 9, 16}
\* The ratios Math.random() is sampled at.
RandomDraws == 0 .. (RandomSteps - 1)

\* Math.round(size * size * 0.3), Math.round(size * size * 0.5) and
\* Math.floor(size * size * 0.3), in integer arithmetic.
RoundLow(size) == (size * size * 3 + 5) \div 10
RoundHigh(size) == (size * size + 1) \div 2
FloorLow(size) == (size * size * 3) \div 10

GenReturned == gPc = "returned"
KeptCount == Cardinality(Filled(gGrid))

EmptyCells(b) == Cells \ Filled(b)

\* C13: between a placement and the activation that follows it the count
\* equals the placements made, otherwise it is one more; the count returned
\* by both solvers is 1 plus the placements of the whole run.
C13_StepsArePlacementsPlusOne ==
    /\ aPc = "idle" => aSteps = 0 /\ aPlacements = 0
    /\ aPc = "placed" => aSteps = aPlacements
    /\ aPc \in {"undone", "done"} => aSteps = 1 + aPlacements
    /\ aPc # "idle" =>
        aPlacements - aUndos = Cardinality(Filled(aBoard)) - Cardinality(Filled(input))
    /\ Returned => result.steps >= 1
    /\ BothReturned => result.steps = 1 + aPlacements
    /\ (Returned /\ ConflictFree(input) /\ result.solved) =>
        result.steps >= Cardinality(EmptyCells(input)) + 1

\* Both solvers solved a conflict-free board after undoing placements, with
\* more steps than it had empty cells plus 1.
C13_Witness ==
    /\ BothReturned
    /\ ConflictFree(input)
    /\ result.solved
    /\ aUndos > 0
    /\ result.steps = 1 + aPlacements
    /\ result.steps > Cardinality(EmptyCells(input)) + 1

(***************************************************************************)
(* C14: solveSudokuAnimated calls onUpdate once after every placement and  *)
(* once after every undone placement, at no other time, and each time      *)
(* before the search goes on: the calls number placements plus undos, and  *)
(* the boards of consecutive calls differ in exactly one cell, set to a    *)
(* value by a placement and to 0 by an undo.                               *)
(***************************************************************************)
DiffCells(a, b) == {cell \in Cells : At(a, cell) # At(b, cell)}

\* The step wrote one cell of the searched board: a value into an empty
\* cell, or 0 into a filled one.
PlacedOne ==
    \E written \in {DiffCells(aBoard, aBoard')} :
        /\ Cardinality(written) = 1
        /\ \A cell \in written : At(aBoard, cell) = 0 /\ At(aBoard', cell) \in Digits
UndidOne ==
    \E written \in {DiffCells(aBoard, aBoard')} :
        /\ Cardinality(written) = 1
        /\ \A cell \in written : At(aBoard, cell) \in Digits /\ At(aBoard', cell) = 0

\* onUpdate was called in the step, with the board as the step left it,
\* which differs from the board of the call before in one cell.
Updated ==
    /\ updates' = updates + 1
    /\ shown' = aBoard'
    /\ Cardinality(DiffCells(shown, shown')) = 1

\* C14: every step either places one value, calls onUpdate and waits the
\* delay, or undoes one placement, calls onUpdate and waits half the delay,
\* or leaves the board alone and calls nothing.
C14_UpdatePerPlacementAndUndo ==
    [][ /\ \/ PlacedOne /\ Updated /\ aPc' = "placed" /\ aTimer' = aDelay'
              /\ aPlacements' = aPlacements + 1 /\ aUndos' = aUndos
           \/ UndidOne /\ Updated /\ aPc' = "undone" /\ aTimer' = aDelay' \div 2
              /\ aUndos' = aUndos + 1 /\ aPlacements' = aPlacements
           \/ aBoard' = aBoard /\ updates' = updates /\ shown' = shown
              /\ aPlacements' = aPlacements /\ aUndos' = aUndos
        /\ updates' = aPlacements' + aUndos'
        /\ updates' > 0 => shown' = aBoard'
      ]_vars

\* The search waits after an undo, having called onUpdate for placements
\* and for undos.
C14_Witness ==
    /\ aPc = "undone"
    /\ aUndos >= 2
    /\ aPlacements >= 2
    /\ updates = aPlacements + aUndos
    /\ shown = aBoard

(***************************************************************************)
(* C16: the removal loop of generatePuzzle ends: the number of cells to    *)
(* remove never exceeds the number of non-zero cells the grid has when the *)
(* removal starts, each iteration clears a cell that was non-zero, and     *)
(* the loop clears exactly N*N - cellsToKeep distinct cells.               *)
(***************************************************************************)
\* The cells that were non-zero when the removal started and are 0 now.
RemovedCells == NonZero(gSolve.grid) \ NonZero(gGrid)

C16_RemovalLoopEnds ==
    gPc # "idle" =>
        /\ gRemove <= Cardinality(NonZero(gSolve.grid))
        /\ gPc = "returned"
        /\ gI = gRemove
        /\ Cardinality(RemovedCells) = N * N - cellsToKeep(N, gK)

(***************************************************************************)
(* C17: when solveSudoku or solveSudokuAnimated returns solved=false, the  *)
(* board it returns equals the input board cell for cell: every placement  *)
(* of the search has been cleared back to 0 and no initially filled cell   *)
(* has changed.                                                            *)
(***************************************************************************)
C17_UnsolvedRestoresInput ==
    /\ (Returned /\ ~result.solved) => result.grid = input
    /\ (aPc = "done" /\ ~aSolved) =>
        /\ aBoard = input
        /\ aUndos = aPlacements

\* Both solvers gave up on a partly filled board after placing and undoing
\* values, and returned the input.
C17_Witness ==
    /\ BothReturned
    /\ ~result.solved
    /\ ~aSolved
    /\ aUndos > 1
    /\ Filled(input) # {}
    /\ result.grid = input
    /\ aBoard = input

(***************************************************************************)
(* C18: for a conflict-free input board, every intermediate board of the   *)
(* search, and so every board passed to onUpdate, is conflict-free, agrees *)
(* with the input on every initially non-zero cell, and has its placed     *)
(* cells forming a prefix, in row-major order, of the initially empty      *)
(* cells.                                                                  *)
(***************************************************************************)
RowMajor(cell) == cell[1] * N + cell[2]
PlacedCells(b) == Filled(b) \ Filled(input)

\* The placed cells of b are the first ones, row-major, of the input's
\* empty cells.
PlacedIsPrefix(b) ==
    \A p \in PlacedCells(b) : \A q \in EmptyCells(input) :
        RowMajor(q) < RowMajor(p) => q \in PlacedCells(b)

Intermediate(b) ==
    /\ ConflictFree(b)
    /\ Extends(input, b)
    /\ PlacedIsPrefix(b)

\* The cells of the n oldest activations waiting on the stack.
StackCells(n) == {<<aStack[i].row, aStack[i].col>> : i \in 1 .. n}

C18_IntermediateBoards ==
    ConflictFree(input) =>
        /\ Intermediate(aBoard)
        /\ shown = aBoard \/ Intermediate(shown)
        /\ aPc = "placed" => PlacedCells(aBoard) = StackCells(Len(aStack))
        /\ aPc = "undone" => PlacedCells(aBoard) = StackCells(Len(aStack) - 1)

\* The search on a conflict-free, partly filled board waits after an undo
\* with placements standing.
C18_Witness ==
    /\ ConflictFree(input)
    /\ Filled(input) # {}
    /\ aPc = "undone"
    /\ Cardinality(PlacedCells(aBoard)) >= 2
    /\ shown = aBoard
    /\ Intermediate(shown)

(***************************************************************************)
(* C19: when a conflict-free board has several completions, solveSudoku    *)
(* returns the one that is smallest in lexicographic order of the cell     *)
(* values read in row-major order, the first one reached with cells taken  *)
(* row-major and candidates ascending, and the search stops there.         *)
(***************************************************************************)
CellAt(k) == <<k \div N, k % N>>
Completions(b) == {s \in AllSolved : Extends(b, s)}

\* a comes before b, or equals it, reading the cells in row-major order.
LexLeq(a, b) ==
    \/ a = b
    \/ \E k \in 0 .. (N * N - 1) :
        /\ At(a, CellAt(k)) < At(b, CellAt(k))
        /\ \A j \in 0 .. (k - 1) : At(a, CellAt(j)) = At(b, CellAt(j))

\* C19: the solved grid is a completion of the input no other completion
\* precedes; the observed run ends on the same grid with exactly one
\* placement standing per initially empty cell, its last step being the
\* activation that found no empty cell.
C19_FirstCompletionWins ==
    /\ (Returned /\ ConflictFree(input) /\ result.solved) =>
        /\ result.grid \in Completions(input)
        /\ \A s \in Completions(input) : LexLeq(result.grid, s)
    /\ (aPc = "done" /\ ConflictFree(input) /\ aSolved) =>
        /\ \A s \in Completions(input) : LexLeq(aBoard, s)
        /\ aPlacements - aUndos = Cardinality(EmptyCells(input))
        /\ aSteps = 1 + aPlacements

\* A partly filled board with several completions has been solved by both
\* solvers.
C19_Witness ==
    /\ BothReturned
    /\ ConflictFree(input)
    /\ Filled(input) # {}
    /\ result.solved
    /\ Cardinality(Completions(input)) >= 2
    /\ \E s \in Completions(input) : s # result.grid /\ LexLeq(result.grid, s)

(***************************************************************************)
(* The page component Index: its handlers and the timers they start.  A    *)
(* step is one handler or one timer callback run to its end or to its      *)
(* next await; React state is what the setters were last given.  events    *)
(* counts the user's events, genTimers and statusTimers the pending        *)
(* setTimeout callbacks of handleGeneratePuzzle and of the status line.    *)
(* The callback of handleGeneratePuzzle calls generatePuzzle(gridSize)     *)
(* with the size of the render that started it, here always N.             *)
(***************************************************************************)
StatusGenerating == "Generating puzzle..."
StatusGenerated == "Puzzle generated!"
StatusInvalid == "Invalid puzzle - please check for conflicts"
StatusSolving == "Solving..."
StatusSolved == "Solved!"
StatusNoSolution == "No solution exists"

\* The sizes selected in a page run.
PageSizes == {N}

\* The event loop is free (no callback is stuck) and the user acts.
CanAct == ~pageHung /\ events < MaxPageEvents

\* const newSize = parseInt(size); setGridSize; setGrid; setOriginalGrid; ...
\* The Select is enabled during a solve and the handler has no guard.
HandleGridSizeChange ==
    /\ CanAct
    /\ \E newSize \in PageSizes :
        /\ gridSize' = newSize
        /\ grid' = EmptyGrid(newSize)
        /\ originalGrid' = EmptyGrid(newSize)
    /\ solveStatus' = StatusNone
    /\ events' = events + 1
    /\ UNCHANGED <<isAnimating, genTimers, statusTimers, pageHung>>
    /\ UNCHANGED <<solverVars, checkerVars, genVars>>

\* if (isAnimating) return; setGrid(grid.map(...)).  The input of a cell is
\* disabled while animating and when the cell belongs to originalGrid.
HandleCellChange ==
    /\ CanAct
    /\ ~isAnimating
    /\ \E row \in DOMAIN grid : \E col \in DOMAIN grid : \E value \in CellValues(gridSize) :
        /\ row * gridSize + col < MaxEditCells
        /\ originalGrid[row][col] = 0
        /\ grid' = CellChange(grid, row, col, value)
    /\ events' = events + 1
    /\ UNCHANGED <<gridSize, originalGrid, isAnimating, solveStatus, genTimers,
                   statusTimers, pageHung>>
    /\ UNCHANGED <<solverVars, checkerVars, genVars>>

\* if (isAnimating) return; setSolveStatus(...); setTimeout(..., 100)
HandleGeneratePuzzle ==
    /\ CanAct
    /\ ~isAnimating
    /\ solveStatus' = StatusGenerating
    /\ genTimers' = genTimers + 1
    /\ events' = events + 1
    /\ UNCHANGED <<gridSize, grid, originalGrid, isAnimating, statusTimers, pageHung>>
    /\ UNCHANGED <<solverVars, checkerVars, genVars>>

\* The cells of nonZero in row-major order, as a set of ranks 0 .. n-1.
Rank(nonZero, cell) ==
    Cardinality({other \in nonZero : RowMajor(other) < RowMajor(cell)})

\* One outcome of the removal loop: the n cells from rank j on, cyclically.
PickWindow(nonZero, n, j) ==
    {cell \in nonZero :
        (Rank(nonZero, cell) + Cardinality(nonZero) - j) % Cardinality(nonZero) < n}

\* generatePuzzle(size) for one outcome of its shuffles and of its ratio,
\* as in the action GeneratePuzzle: the runs that return, one per outcome of
\* the removal loop told apart, or the run that stays in the removal loop.
\* The callback of handleGeneratePuzzle's timer has no isAnimating test.
\* When generatePuzzle stays in its removal loop the callback never
\* returns: no setter is reached and no later callback or event runs.
generatePuzzle(size, draws, k) ==
    LET solved == solveSudoku(fillDiagonal(EmptyGrid(size), 0, size, draws))
        nonZero == NonZero(solved.grid)
        cellsToRemove == size * size - cellsToKeep(size, k)
    IN  IF cellsToRemove <= Cardinality(nonZero)
        THEN {[returns |-> TRUE,
               grid |-> Cleared(solved.grid, PickWindow(nonZero, cellsToRemove, j))] :
                    j \in 0 .. (MaxPickSets - 1)}
        ELSE {[returns |-> FALSE, grid |-> Cleared(solved.grid, nonZero)]}

\* The shuffle outcomes of a page run.
PageDraws ==
    {draws \in [0 .. (Sqrt(N) - 1) -> ShuffleDraws(N)] :
        /\ \A i \in 1 .. (N - 1) : draws[0][i] = 0
        /\ \A i \in 1 .. (N - 2) : draws[1][i] = 0
        /\ draws[1][N - 1] <= MaxPageDraw}

\* The runs of generatePuzzle(N) over the shuffles, ratios and removals.
GenerateRuns ==
    UNION {generatePuzzle(N, draws, k) : draws \in PageDraws, k \in RandomDraws}

GenerateTimer ==
    /\ ~pageHung
    /\ genTimers > 0
    /\ genTimers' = genTimers - 1
    /\ \E run \in gRuns :
            IF run.returns
            THEN /\ grid' = run.grid
                 /\ originalGrid' = run.grid
                 /\ solveStatus' = StatusGenerated
                 /\ statusTimers' = statusTimers + 1
                 /\ UNCHANGED pageHung
            ELSE /\ pageHung' = TRUE
                 /\ UNCHANGED <<grid, originalGrid, solveStatus, statusTimers>>
    /\ UNCHANGED <<gridSize, isAnimating, events>>
    /\ UNCHANGED <<solverVars, checkerVars, genVars>>

\* if (isAnimating) return; setGrid(emptyGrid); setOriginalGrid(emptyGrid); ...
HandleClearGrid ==
    /\ CanAct
    /\ ~isAnimating
    /\ grid' = EmptyGrid(gridSize)
    /\ originalGrid' = EmptyGrid(gridSize)
    /\ solveStatus' = StatusNone
    /\ events' = events + 1
    /\ UNCHANGED <<gridSize, isAnimating, genTimers, statusTimers, pageHung>>
    /\ UNCHANGED <<solverVars, checkerVars, genVars>>

\* A setTimeout(() => setSolveStatus(''), ...) callback.
StatusTimer ==
    /\ ~pageHung
    /\ statusTimers > 0
    /\ statusTimers' = statusTimers - 1
    /\ solveStatus' = StatusNone
    /\ UNCHANGED <<gridSize, grid, originalGrid, isAnimating, genTimers, pageHung, events>>
    /\ UNCHANGED <<solverVars, checkerVars, genVars>>

\* What handleSolve does with the search suspended or resolved as s: while
\* it is suspended, onUpdate has set the grid to a copy of the board; once
\* it has resolved the lines after the await run before any other callback.
Observe(s, status) ==
    IF s.pc = "done"
    THEN /\ grid' = IF s.solved THEN s.board ELSE grid
         /\ solveStatus' = IF s.solved THEN StatusSolved ELSE StatusNoSolution
         /\ isAnimating' = FALSE
         /\ statusTimers' = statusTimers + 1
    ELSE /\ grid' = IF s.upd THEN s.board ELSE grid
         /\ solveStatus' = status
         /\ isAnimating' = TRUE
         /\ UNCHANGED statusTimers

\* Faulty variant: handleSolve without its isValidSudoku test.
HandleSolveUnchecked ==
    /\ CanAct
    /\ ~isAnimating
    /\ events' = events + 1
    /\ input' = grid
    /\ aDelay' = DefaultDelay
    /\ \E s \in {animFrame(grid, <<>>, 0)} : Adopt(s) /\ Observe(s, StatusSolving)
    /\ UNCHANGED <<result, gridSize, originalGrid, genTimers, pageHung>>
    /\ UNCHANGED <<checkerVars, genVars>>

\* handleSolve up to its await, or to its end when the search resolves at
\* once.  isValidSudoku works on the grid object itself.
HandleSolve ==
    /\ CanAct
    /\ ~isAnimating
    /\ events' = events + 1
    /\ \E valid \in {isValidSudoku(grid)} :
        IF ~valid.ok
        THEN /\ grid' = valid.board
             /\ solveStatus' = StatusInvalid
             /\ statusTimers' = statusTimers + 1
             /\ UNCHANGED <<isAnimating, solverVars>>
        ELSE /\ input' = valid.board
             /\ aDelay' = DefaultDelay
             /\ \E s \in {animFrame(valid.board, <<>>, 0)} :
                    Adopt(s) /\ Observe(s, StatusSolving)
             /\ UNCHANGED result
    /\ UNCHANGED <<gridSize, originalGrid, genTimers, pageHung>>
    /\ UNCHANGED <<checkerVars, genVars>>

\* The timers the search of handleSolve awaits.
PagePlacementTimer ==
    /\ ~pageHung
    /\ isAnimating
    /\ aPc = "placed"
    /\ aDelay' = aDelay
    /\ \E s \in {animFrame(aBoard, aStack, aSteps)} : Adopt(s) /\ Observe(s, solveStatus)
    /\ UNCHANGED <<input, result>>
    /\ UNCHANGED <<gridSize, originalGrid, genTimers, pageHung, events>>
    /\ UNCHANGED <<checkerVars, genVars>>

PageBacktrackTimer ==
    /\ ~pageHung
    /\ isAnimating
    /\ aPc = "undone"
    /\ aDelay' = aDelay
    /\ \E s \in {animResume(aBoard, aStack, aSteps)} : Adopt(s) /\ Observe(s, solveStatus)
    /\ UNCHANGED <<input, result>>
    /\ UNCHANGED <<gridSize, originalGrid, genTimers, pageHung, events>>
    /\ UNCHANGED <<checkerVars, genVars>>

\* The entries on the grid when a page run starts: none, the scenario
\* board, or two equal values in one row.
PageGrids == {EmptyGrid(N), ScenarioBoard, ConflictBoard}

InitPage ==
    /\ SolverAt(EmptyGrid(N))
    /\ CheckerAt(EmptyGrid(N))
    /\ gDraws = [b \in 0 .. (Sqrt(N) - 1) |-> [i \in 1 .. (N - 1) |-> 0]]
    /\ gPc = "idle"
    /\ gGrid = EmptyGrid(N)
    /\ gSolve = NoResult
    /\ gK = 0
    /\ gRemove = 0
    /\ gI = 0
    /\ gRuns = GenerateRuns
    /\ \E board \in PageGrids : PageWith(N, board)

NextPage ==
    \/ HandleGridSizeChange
    \/ HandleCellChange
    \/ HandleGeneratePuzzle
    \/ GenerateTimer
    \/ HandleClearGrid
    \/ HandleSolve
    \/ PagePlacementTimer
    \/ PageBacktrackTimer
    \/ StatusTimer

SpecPage == InitPage /\ [][NextPage]_vars

\* Every pending timer fires once the event loop is free to run it.
SpecPageFair ==
    /\ SpecPage
    /\ WF_vars(PagePlacementTimer)
    /\ WF_vars(PageBacktrackTimer)
    /\ WF_vars(GenerateTimer)
    /\ WF_vars(StatusTimer)

(***************************************************************************)
(* C12: the page never starts the solver on a board isValidSudoku          *)
(* rejects: handleSolve tests isValidSudoku first, and when the test       *)
(* fails the solver is not invoked, the grid and isAnimating stay as they  *)
(* were, and the status is the invalid-puzzle message, which is not the    *)
(* 'No solution exists' message of an unsolved search.                     *)
(***************************************************************************)
\* The solver ran in this step from a page at rest: a search was started.
SearchStarted ==
    /\ ~isAnimating
    /\ isAnimating' \/ solverVars' # solverVars

C12_SolveOnlyValidBoards ==
    [][ /\ HandleSolve =>
            IF isValidSudoku(grid).ok
            THEN /\ input' = grid
                 /\ aSteps' >= 1
                 /\ solveStatus' \in {StatusSolving, StatusSolved, StatusNoSolution}
            ELSE /\ grid' = grid
                 /\ isAnimating' = isAnimating
                 /\ originalGrid' = originalGrid
                 /\ UNCHANGED solverVars
                 /\ solveStatus' = StatusInvalid
        /\ SearchStarted =>
            /\ isValidSudoku(grid).ok
            /\ ConflictFree(grid)
            /\ input' = grid
        /\ isAnimating' => isValidSudoku(input').ok
        /\ solveStatus' = StatusNoSolution => ConflictFree(input') /\ ~aSolved'
        /\ StatusInvalid # StatusNoSolution
      ]_vars

\* Solve has been clicked on a grid with a conflict: the message is shown
\* and no search has run.
C12_Witness ==
    /\ solveStatus = StatusInvalid
    /\ ~isValidSudoku(grid).ok
    /\ ~isAnimating
    /\ aPc = "idle"
    /\ aSteps = 0
    /\ events = 1

C20_OnlySolverChangesPage ==
    [][ (isAnimating /\ isAnimating') =>
            /\ originalGrid' = originalGrid
            /\ gridSize' = gridSize
            /\ Size(grid') = gridSize'
            /\ grid' # grid => (updates' = updates + 1 /\ grid' = shown')
            /\ aBoard' # aBoard => (PlacedOne \/ UndidOne)
            /\ input' = input
      ]_vars

====
